---- MODULE Spec2Model ----
(***************************************************************************)
(* Badge evaluation service of the INTENT platform.                        *)
(*                                                                         *)
(* The model follows supabase/functions/generate-image/index.ts (the       *)
(* request handler, checkBadgeCriteria, calculateIntentScore and           *)
(* getVoiceState) and the tables, constraints and seed rows of the badge   *)
(* migration.  One user is modelled; the handler runs in request slots,    *)
(* each step of a slot being the synchronous code up to and including the  *)
(* next datastore round trip.                                              *)
(*                                                                         *)
(* Time is counted in whole UTC days: `now` is both the instant compared   *)
(* with the event windows and the calendar day of the streak, and          *)
(* "yesterday" is now - 1.                                                 *)
(*                                                                         *)
(* Scores are exact rationals kept as an integer numerator over 150, the   *)
(* common denominator of 50, 5, 10, 15 and 10; the NUMERIC(4,2) column     *)
(* keeps hundredths.                                                       *)
(***************************************************************************)
EXTENDS Integers, Sequences, FiniteSets, TLC

(* ------------------------------ bounds -------------------------------- *)

\* events accepted in one run
MaxEvents == 2

\* calendar-day changes in one run
MaxDayAdvance == 2

\* datastore calls that fail for reasons outside the program in one run
MaxFailures == 1

\* events accepted in one run of the concurrent specification
MaxConcEvents == 2

\* single-field increments applied in one run of the score specification
MaxBumps == 2

\* evaluations of one badge in the criteria specification
MaxEvaluations == 3

\* statements on the campaigns table in the campaign specification
MaxCampaignOps == 5

(* ----------------------------- constants ------------------------------ *)

\* day on which the migration ran: now() of the seeded event windows
LaunchDay == 100

\* denominator of the score numerators
ScoreDen == 150

Reqs == {1, 2}

UserId == "u1"

Wallet == "0xW"

NullDate == <<>>

Date(d) == <<d>>

NoBadge == "null"

\* `action` when the request body has none: undefined in the handler, left
\* out of the inserted unlock row, whose trigger_event is then NULL
NoAction == "null"

Min2(a, b) == IF a <= b THEN a ELSE b

Max2(a, b) == IF a >= b THEN a ELSE b

MinOf(S) == CHOOSE x \in S : \A y \in S : x <= y

Range(s) == {s[i] : i \in 1..Len(s)}

(* --------------------------- badge catalog ---------------------------- *)

\* one row of public.badges; progression_order 0 stands for NULL, which the
\* handler reads as 0
Badge(id, slug, layer, prog, ord, crit, ws, we) ==
  [id |-> id, slug |-> slug, layer |-> layer, is_progression |-> prog,
   progression_order |-> ord, criteria |-> crit,
   event_window_start |-> ws, event_window_end |-> we, is_active |-> TRUE]

\* the seeded badge definitions, in insertion order; ids are the row numbers
Catalog ==
  << Badge(1, "newcomer", "identity", TRUE, 1,
           [min_transactions |-> 1], NullDate, NullDate),
     Badge(2, "active", "identity", TRUE, 2,
           [min_consecutive_days |-> 7, min_protocols |-> 3], NullDate, NullDate),
     Badge(3, "legend", "identity", TRUE, 3,
           [min_consecutive_days |-> 30, min_protocols |-> 10,
            min_transactions |-> 100], NullDate, NullDate),
     Badge(4, "on-chain", "proof", FALSE, 0,
           [verified_on_chain |-> TRUE], NullDate, NullDate),
     Badge(5, "multi-protocol", "proof", FALSE, 0,
           [min_protocols |-> 5], NullDate, NullDate),
     Badge(6, "consistent", "proof", FALSE, 0,
           [min_consecutive_days |-> 14], NullDate, NullDate),
     Badge(7, "genesis-og", "event", FALSE, 0,
           [first_24h_launch |-> TRUE], Date(LaunchDay), Date(LaunchDay + 1)),
     Badge(8, "arcflow-witness", "event", FALSE, 0,
           [protocol |-> "arcflow", within_days |-> 7],
           Date(LaunchDay), Date(LaunchDay + 7)),
     Badge(9, "arc-mainnet", "event", FALSE, 0,
           [mainnet_first_24h |-> TRUE], NullDate, NullDate),
     Badge(10, "voice", "social", FALSE, 0,
           [state_1 |-> [shares |-> 1], state_2 |-> [shares |-> 5],
            state_3 |-> [shares |-> 10, engagement |-> 100]],
           NullDate, NullDate) >>

BadgeIds == {Catalog[i].id : i \in 1..Len(Catalog)}

BadgeById(id) == CHOOSE b \in Range(Catalog) : b.id = id

(* --------------------------- pure functions --------------------------- *)

\* JavaScript truthiness of an optional numeric criteria key
NumKey(criteria, k) == k \in DOMAIN criteria /\ criteria[k] # 0

\* JavaScript truthiness of an optional boolean criteria key
BoolKey(criteria, k) == k \in DOMAIN criteria /\ criteria[k] = TRUE

\* faulty variant: the contributions and the total are not capped
calculateIntentScore_uncapped(progress) ==
  3 * progress.total_transactions + 30 * progress.unique_protocols
  + 15 * progress.consecutive_days + 10 * progress.max_consecutive_days
  + 15 * progress.social_shares

\* faulty variant: the high-water mark is divided by 10 instead of 15
calculateIntentScore_wrongDivisor(progress) ==
  LET s1 == Min2(3 * progress.total_transactions, 2 * ScoreDen)
      s2 == s1 + Min2(30 * progress.unique_protocols, 2 * ScoreDen)
      s3 == s2 + Min2(15 * progress.consecutive_days, 3 * ScoreDen)
      s4 == s3 + Min2(15 * progress.max_consecutive_days, 2 * ScoreDen)
      s5 == s4 + Min2(15 * progress.social_shares, 1 * ScoreDen)
  IN  Min2(s5, 10 * ScoreDen)

calculateIntentScore(progress) ==
  LET s1 == Min2(3 * progress.total_transactions, 2 * ScoreDen)
      s2 == s1 + Min2(30 * progress.unique_protocols, 2 * ScoreDen)
      s3 == s2 + Min2(15 * progress.consecutive_days, 3 * ScoreDen)
      s4 == s3 + Min2(10 * progress.max_consecutive_days, 2 * ScoreDen)
      s5 == s4 + Min2(15 * progress.social_shares, 1 * ScoreDen)
  IN  Min2(s5, 10 * ScoreDen)

\* faulty variant: the streak threshold is not checked
checkBadgeCriteria_noDays(badge, progress, t) ==
  LET criteria == badge.criteria IN
  IF NumKey(criteria, "min_transactions")
     /\ progress.total_transactions < criteria.min_transactions THEN FALSE
  ELSE IF NumKey(criteria, "min_protocols")
     /\ progress.unique_protocols < criteria.min_protocols THEN FALSE
  ELSE IF BoolKey(criteria, "verified_on_chain")
     /\ progress.total_transactions < 1 THEN FALSE
  ELSE IF badge.event_window_start # NullDate /\ badge.event_window_end # NullDate
     THEN ~ (t < badge.event_window_start[1] \/ t > badge.event_window_end[1])
  ELSE TRUE

\* faulty variant: the event window is not checked
checkBadgeCriteria_noWindow(badge, progress, t) ==
  LET criteria == badge.criteria IN
  IF NumKey(criteria, "min_transactions")
     /\ progress.total_transactions < criteria.min_transactions THEN FALSE
  ELSE IF NumKey(criteria, "min_consecutive_days")
     /\ progress.consecutive_days < criteria.min_consecutive_days THEN FALSE
  ELSE IF NumKey(criteria, "min_protocols")
     /\ progress.unique_protocols < criteria.min_protocols THEN FALSE
  ELSE IF BoolKey(criteria, "verified_on_chain")
     /\ progress.total_transactions < 1 THEN FALSE
  ELSE TRUE

\* variant: the first state of the social badge is evaluated
checkBadgeCriteria_voiceStates(badge, progress, t) ==
  LET criteria == badge.criteria IN
  IF NumKey(criteria, "min_transactions")
     /\ progress.total_transactions < criteria.min_transactions THEN FALSE
  ELSE IF NumKey(criteria, "min_consecutive_days")
     /\ progress.consecutive_days < criteria.min_consecutive_days THEN FALSE
  ELSE IF NumKey(criteria, "min_protocols")
     /\ progress.unique_protocols < criteria.min_protocols THEN FALSE
  ELSE IF BoolKey(criteria, "verified_on_chain")
     /\ progress.total_transactions < 1 THEN FALSE
  ELSE IF "state_1" \in DOMAIN criteria
     /\ progress.social_shares < criteria.state_1.shares THEN FALSE
  ELSE IF badge.event_window_start # NullDate /\ badge.event_window_end # NullDate
     THEN ~ (t < badge.event_window_start[1] \/ t > badge.event_window_end[1])
  ELSE TRUE

\* faulty variant: a transaction threshold holds only when it is just reached
checkBadgeCriteria_exactThreshold(badge, progress, t) ==
  LET criteria == badge.criteria IN
  IF NumKey(criteria, "min_transactions")
     /\ progress.total_transactions # criteria.min_transactions THEN FALSE
  ELSE IF NumKey(criteria, "min_consecutive_days")
     /\ progress.consecutive_days < criteria.min_consecutive_days THEN FALSE
  ELSE IF NumKey(criteria, "min_protocols")
     /\ progress.unique_protocols < criteria.min_protocols THEN FALSE
  ELSE IF BoolKey(criteria, "verified_on_chain")
     /\ progress.total_transactions < 1 THEN FALSE
  ELSE IF badge.event_window_start # NullDate /\ badge.event_window_end # NullDate
     THEN ~ (t < badge.event_window_start[1] \/ t > badge.event_window_end[1])
  ELSE TRUE

\* faulty variant: each bound of the event window is checked on its own
checkBadgeCriteria_eachBound(badge, progress, t) ==
  LET criteria == badge.criteria IN
  IF NumKey(criteria, "min_transactions")
     /\ progress.total_transactions < criteria.min_transactions THEN FALSE
  ELSE IF NumKey(criteria, "min_consecutive_days")
     /\ progress.consecutive_days < criteria.min_consecutive_days THEN FALSE
  ELSE IF NumKey(criteria, "min_protocols")
     /\ progress.unique_protocols < criteria.min_protocols THEN FALSE
  ELSE IF BoolKey(criteria, "verified_on_chain")
     /\ progress.total_transactions < 1 THEN FALSE
  ELSE IF badge.event_window_start # NullDate /\ t < badge.event_window_start[1]
     THEN FALSE
  ELSE IF badge.event_window_end # NullDate /\ t > badge.event_window_end[1]
     THEN FALSE
  ELSE TRUE

\* checkBadgeCriteria, with the current time t as a parameter
checkBadgeCriteria(badge, progress, t) ==
  LET criteria == badge.criteria IN
  IF NumKey(criteria, "min_transactions")
     /\ progress.total_transactions < criteria.min_transactions THEN FALSE
  ELSE IF NumKey(criteria, "min_consecutive_days")
     /\ progress.consecutive_days < criteria.min_consecutive_days THEN FALSE
  ELSE IF NumKey(criteria, "min_protocols")
     /\ progress.unique_protocols < criteria.min_protocols THEN FALSE
  ELSE IF BoolKey(criteria, "verified_on_chain")
     /\ progress.total_transactions < 1 THEN FALSE
  ELSE IF badge.event_window_start # NullDate /\ badge.event_window_end # NullDate
     THEN ~ (t < badge.event_window_start[1] \/ t > badge.event_window_end[1])
  ELSE TRUE

getVoiceState(progress) ==
  IF progress.social_shares >= 10 /\ progress.total_engagement >= 100 THEN 3
  ELSE IF progress.social_shares >= 5 THEN 2
  ELSE IF progress.social_shares >= 1 THEN 1
  ELSE 0

\* faulty variant: the column truncates instead of rounding
StoreScore_truncates(s) == (2 * s) \div 3

\* what the intent_score NUMERIC(4,2) column keeps of a score: hundredths,
\* rounded to nearest
StoreScore(s) == (4 * s + 3) \div 6

(* ------------------------------- state -------------------------------- *)

VARIABLES
  now,        \* current UTC day
  dayAdv,     \* day changes so far
  user_badge_progress,  \* rows of the progress table, in insertion order
  badge_unlocks,        \* rows of the unlock table, in insertion order
  req,        \* per request slot: position and locals of the handler
  started,    \* events accepted so far
  failures,   \* datastore calls that failed for outside reasons so far
  failLimit,  \* how many such failures the environment produces in this run
  announced,  \* per slug: how many times it was pushed to a newUnlocks list
  sp,         \* score specification: the progress handed to the calculator
  sr,         \* score specification: the score it returned
  bumps,      \* score specification: increments applied so far
  evBadge,    \* criteria specification: the badge handed to checkBadgeCriteria
  evProgress, \* criteria specification: the progress handed to it
  evNow,      \* criteria specification: the day of the evaluation
  evResult,   \* criteria specification: what it returned
  evCount,    \* criteria specification: evaluations so far
  campaigns,  \* campaign specification: the rows of the campaigns table, by id
  statusTrail, \* campaign specification: per row, the statuses it has had
  lastOp,     \* campaign specification: the last statement and its outcome
  ops         \* campaign specification: statements so far

vars == <<now, dayAdv, user_badge_progress, badge_unlocks, req, started, failures,
          failLimit, announced,
          sp, sr, bumps,
          evBadge, evProgress, evNow, evResult, evCount,
          campaigns, statusTrail, lastOp, ops>>

dbVars == <<user_badge_progress, badge_unlocks>>

scoreVars == <<sp, sr, bumps>>

criteriaVars == <<evBadge, evProgress, evNow, evResult, evCount>>

campaignVars == <<campaigns, statusTrail, lastOp, ops>>

handlerVars == <<now, dayAdv, user_badge_progress, badge_unlocks, req, started,
                 failures, failLimit, announced>>

\* the handler's `progress` before a row was read
NoRow == [user_id |-> ""]

\* a row of user_badge_progress as the column defaults create it
ZeroRow(userId, walletAddress) ==
  [user_id |-> userId, wallet_address |-> walletAddress,
   total_transactions |-> 0, unique_protocols |-> 0,
   protocols_interacted |-> <<>>, consecutive_days |-> 0,
   last_active_date |-> NullDate, max_consecutive_days |-> 0,
   social_shares |-> 0, total_engagement |-> 0, voice_state |-> 0,
   intent_score |-> 0, current_identity_badge |-> NoBadge]

NoResp == [status |-> 0]

Resp400 == [status |-> 400, error |-> "Missing userId or walletAddress"]

Resp500 == [status |-> 500, error |-> "Internal server error"]

\* eventData; "" and 0 stand for an absent field, which the handler reads
\* through `&&` and `|| 0` exactly as it reads "" and 0
EventData(protocol, txHash, engagement) ==
  [protocol |-> protocol, txHash |-> txHash, engagement |-> engagement]

NoEvent == EventData("", "", 0)

\* besides the handler's locals: `created` tells that this request inserted
\* the progress row, `tried` the badges it issued an unlock insert for, and
\* `failed` the datastore calls of this request that returned an error
IdleReq ==
  [pc |-> "idle", action |-> "", userId |-> "", walletAddress |-> "",
   eventData |-> NoEvent, progress |-> NoRow, created |-> FALSE,
   badges |-> <<>>, unlockedBadgeIds |-> {}, newUnlocks |-> <<>>, idx |-> 0,
   tried |-> {}, failed |-> {}, resp |-> NoResp]

\* request bodies the clients send
Requests ==
  { [action |-> "transaction", eventData |-> EventData("arcflow", "0xabc", 0)],
    [action |-> "transaction", eventData |-> EventData("aave", "", 0)],
    [action |-> "transaction", eventData |-> NoEvent],
    [action |-> "social_share", eventData |-> EventData("", "", 50)],
    [action |-> "social_share", eventData |-> NoEvent],
    [action |-> "daily_check", eventData |-> NoEvent],
    [action |-> "event_window", eventData |-> NoEvent],
    [action |-> "claim_reward", eventData |-> EventData("", "0xabc", 0)],
    [action |-> NoAction, eventData |-> NoEvent] }

InFlight(r) == req[r].pc \notin {"idle", "done"}

(* ----------------------- datastore operations ------------------------- *)

\* badges: select * where is_active
ActiveBadges == SelectSeq(Catalog, LAMBDA b : b.is_active)

\* faulty variant: the progress table has no uniqueness constraint
UniqueUserProgress_absent(table, rec) == TRUE

\* user_badge_progress insert under CONSTRAINT unique_user_progress
UniqueUserProgress(table, rec) ==
  \A i \in 1..Len(table) : table[i].user_id # rec.user_id

\* select('*').eq('user_id', userId)
ProgressOf(table, userId) == SelectSeq(table, LAMBDA p : p.user_id = userId)

\* update(cols).eq('user_id', userId)
UpdateProgress(table, userId, cols) ==
  [i \in 1..Len(table) |->
     IF table[i].user_id = userId
     THEN [f \in DOMAIN table[i] |-> IF f \in DOMAIN cols THEN cols[f] ELSE table[i][f]]
     ELSE table[i]]

\* faulty variant: the unlock table has no uniqueness constraint
UniqueUserBadge_absent(table, rec) == TRUE

\* badge_unlocks insert under CONSTRAINT unique_user_badge
UniqueUserBadge(table, rec) ==
  \A i \in 1..Len(table) :
    ~ (table[i].user_id = rec.user_id /\ table[i].badge_id = rec.badge_id)

\* a row of badge_unlocks; unlocked_at is the column default now()
UnlockRow(userId, walletAddress, badgeId, action, txHash, t) ==
  [user_id |-> userId, wallet_address |-> walletAddress, badge_id |-> badgeId,
   unlocked_at |-> t, trigger_event |-> action, trigger_tx_hash |-> txHash]

(* ------------------------ handler computations ------------------------ *)

Includes(s, x) == \E i \in 1..Len(s) : s[i] = x

\* faulty variant: a day after the last active day restarts the streak
TransactionUpdate_noIncrement(progress, eventData, today) ==
  LET protocol == eventData.protocol
      protocols == IF protocol # "" /\ ~ Includes(progress.protocols_interacted, protocol)
                   THEN Append(progress.protocols_interacted, protocol)
                   ELSE progress.protocols_interacted
      consecutiveDays ==
        IF progress.last_active_date # Date(today) THEN 1
        ELSE progress.consecutive_days
      maxConsecutive == Max2(progress.max_consecutive_days, consecutiveDays)
  IN  [total_transactions |-> progress.total_transactions + 1,
       unique_protocols |-> Len(protocols),
       protocols_interacted |-> protocols,
       consecutive_days |-> consecutiveDays,
       last_active_date |-> Date(today),
       max_consecutive_days |-> maxConsecutive]

\* faulty variant: the high-water mark is overwritten by the current streak
TransactionUpdate_maxIsCurrent(progress, eventData, today) ==
  LET protocol == eventData.protocol
      protocols == IF protocol # "" /\ ~ Includes(progress.protocols_interacted, protocol)
                   THEN Append(progress.protocols_interacted, protocol)
                   ELSE progress.protocols_interacted
      lastActive == progress.last_active_date
      consecutiveDays ==
        IF lastActive # Date(today)
        THEN IF lastActive = Date(today - 1)
             THEN progress.consecutive_days + 1
             ELSE 1
        ELSE progress.consecutive_days
  IN  [total_transactions |-> progress.total_transactions + 1,
       unique_protocols |-> Len(protocols),
       protocols_interacted |-> protocols,
       consecutive_days |-> consecutiveDays,
       last_active_date |-> Date(today),
       max_consecutive_days |-> consecutiveDays]

\* faulty variant: the protocol is appended without looking for it in the list
TransactionUpdate_alwaysAppends(progress, eventData, today) ==
  LET protocol == eventData.protocol
      protocols == IF protocol # ""
                   THEN Append(progress.protocols_interacted, protocol)
                   ELSE progress.protocols_interacted
      lastActive == progress.last_active_date
      consecutiveDays ==
        IF lastActive # Date(today)
        THEN IF lastActive = Date(today - 1)
             THEN progress.consecutive_days + 1
             ELSE 1
        ELSE progress.consecutive_days
      maxConsecutive == Max2(progress.max_consecutive_days, consecutiveDays)
  IN  [total_transactions |-> progress.total_transactions + 1,
       unique_protocols |-> Len(protocols),
       protocols_interacted |-> protocols,
       consecutive_days |-> consecutiveDays,
       last_active_date |-> Date(today),
       max_consecutive_days |-> maxConsecutive]

\* faulty variant: the protocol count grows with every protocol named
TransactionUpdate_countsEveryProtocol(progress, eventData, today) ==
  LET protocol == eventData.protocol
      protocols == IF protocol # "" /\ ~ Includes(progress.protocols_interacted, protocol)
                   THEN Append(progress.protocols_interacted, protocol)
                   ELSE progress.protocols_interacted
      lastActive == progress.last_active_date
      consecutiveDays ==
        IF lastActive # Date(today)
        THEN IF lastActive = Date(today - 1)
             THEN progress.consecutive_days + 1
             ELSE 1
        ELSE progress.consecutive_days
      maxConsecutive == Max2(progress.max_consecutive_days, consecutiveDays)
  IN  [total_transactions |-> progress.total_transactions + 1,
       unique_protocols |-> progress.unique_protocols + (IF protocol # "" THEN 1 ELSE 0),
       protocols_interacted |-> protocols,
       consecutive_days |-> consecutiveDays,
       last_active_date |-> Date(today),
       max_consecutive_days |-> maxConsecutive]

\* faulty variant: the longest streak is not raised with the current one
TransactionUpdate_maxNotRaised(progress, eventData, today) ==
  LET protocol == eventData.protocol
      protocols == IF protocol # "" /\ ~ Includes(progress.protocols_interacted, protocol)
                   THEN Append(progress.protocols_interacted, protocol)
                   ELSE progress.protocols_interacted
      lastActive == progress.last_active_date
      consecutiveDays ==
        IF lastActive # Date(today)
        THEN IF lastActive = Date(today - 1)
             THEN progress.consecutive_days + 1
             ELSE 1
        ELSE progress.consecutive_days
      maxConsecutive == progress.max_consecutive_days
  IN  [total_transactions |-> progress.total_transactions + 1,
       unique_protocols |-> Len(protocols),
       protocols_interacted |-> protocols,
       consecutive_days |-> consecutiveDays,
       last_active_date |-> Date(today),
       max_consecutive_days |-> maxConsecutive]

\* case 'transaction': the columns written and the refreshed progress
TransactionUpdate(progress, eventData, today) ==
  LET protocol == eventData.protocol
      protocols == IF protocol # "" /\ ~ Includes(progress.protocols_interacted, protocol)
                   THEN Append(progress.protocols_interacted, protocol)
                   ELSE progress.protocols_interacted
      lastActive == progress.last_active_date
      consecutiveDays ==
        IF lastActive # Date(today)
        THEN IF lastActive = Date(today - 1)
             THEN progress.consecutive_days + 1
             ELSE 1
        ELSE progress.consecutive_days
      maxConsecutive == Max2(progress.max_consecutive_days, consecutiveDays)
  IN  [total_transactions |-> progress.total_transactions + 1,
       unique_protocols |-> Len(protocols),
       protocols_interacted |-> protocols,
       consecutive_days |-> consecutiveDays,
       last_active_date |-> Date(today),
       max_consecutive_days |-> maxConsecutive]

\* faulty variant: the voice state is computed from the totals before the event
SocialShareUpdate_staleVoice(progress, eventData) ==
  [social_shares |-> progress.social_shares + 1,
   total_engagement |-> progress.total_engagement + eventData.engagement,
   voice_state |-> getVoiceState(progress)]

\* case 'social_share': the columns written
SocialShareUpdate(progress, eventData) ==
  LET shares == progress.social_shares + 1
      engagement == progress.total_engagement + eventData.engagement
  IN  [social_shares |-> shares,
       total_engagement |-> engagement,
       voice_state |-> getVoiceState([progress EXCEPT !.social_shares = shares,
                                                     !.total_engagement = engagement])]

\* { ...progress, cols }: object spread
Patch(rec, cols) ==
  [f \in DOMAIN rec |-> IF f \in DOMAIN cols THEN cols[f] ELSE rec[f]]

\* faulty variant: badges already unlocked are not skipped
NextInsert_noSkip(badges, unlockedBadgeIds, progress, t, from) ==
  LET cand == {j \in from..Len(badges) : checkBadgeCriteria(badges[j], progress, t)}
  IN  IF cand = {} THEN Len(badges) + 1 ELSE MinOf(cand)

\* the badge loop from position `from` up to its next insert: index of the
\* first badge that is not in unlockedBadgeIds and meets its criteria
NextInsert(badges, unlockedBadgeIds, progress, t, from) ==
  LET cand == {j \in from..Len(badges) :
                 /\ badges[j].id \notin unlockedBadgeIds
                 /\ checkBadgeCriteria(badges[j], progress, t)}
  IN  IF cand = {} THEN Len(badges) + 1 ELSE MinOf(cand)

\* stable sort by descending (progression_order || 0)
RECURSIVE SortByOrderDesc(_)
SortByOrderDesc(s) ==
  IF Len(s) <= 1 THEN s
  ELSE LET rest == SortByOrderDesc(Tail(s))
           before == SelectSeq(rest, LAMBDA b : b.progression_order > Head(s).progression_order)
           after == SelectSeq(rest, LAMBDA b : b.progression_order <= Head(s).progression_order)
       IN  before \o <<Head(s)>> \o after

identityBadges(badges) ==
  SortByOrderDesc(SelectSeq(badges, LAMBDA b : b.layer = "identity" /\ b.is_progression))

\* faulty variant: badges unlocked by the current event are not considered
IdentityBadgeOf_ignoresNew(badges, unlockedBadgeIds, newUnlocks) ==
  LET sorted == identityBadges(badges)
      hit == {j \in 1..Len(sorted) : sorted[j].id \in unlockedBadgeIds}
  IN  IF hit = {} THEN NoBadge ELSE sorted[MinOf(hit)].slug

\* first badge of identityBadges that is unlocked or newly unlocked
IdentityBadgeOf(badges, unlockedBadgeIds, newUnlocks) ==
  LET sorted == identityBadges(badges)
      hit == {j \in 1..Len(sorted) :
                \/ sorted[j].id \in unlockedBadgeIds
                \/ Includes(newUnlocks, sorted[j].slug)}
  IN  IF hit = {} THEN NoBadge ELSE sorted[MinOf(hit)].slug

SuccessResponse(newUnlocks, intentScore, currentIdentityBadge, progress) ==
  [status |-> 200, success |-> TRUE, newUnlocks |-> newUnlocks,
   intentScore |-> intentScore, currentIdentityBadge |-> currentIdentityBadge,
   progress |-> [totalTransactions |-> progress.total_transactions,
                 uniqueProtocols |-> progress.unique_protocols,
                 consecutiveDays |-> progress.consecutive_days]]

(* --------------------------- initial states --------------------------- *)

\* protocol names other than the ones the modelled requests carry
Filler == <<"arcflow", "d1", "d2", "d3", "d4", "d5", "d6", "d7", "d8">>

\* a progress row as the handler leaves it after a user's last event
SeedRow(tx, nProtocols, days, lastActive, maxDays, shares, engagement, identity) ==
  LET counters ==
        Patch(ZeroRow(UserId, Wallet),
              [total_transactions |-> tx,
               unique_protocols |-> nProtocols,
               protocols_interacted |-> SubSeq(Filler, 1, nProtocols),
               consecutive_days |-> days,
               last_active_date |-> Date(lastActive),
               max_consecutive_days |-> maxDays,
               social_shares |-> shares,
               total_engagement |-> engagement])
  IN  Patch(counters,
            [voice_state |-> getVoiceState(counters),
             intent_score |-> StoreScore(calculateIntentScore(counters)),
             current_identity_badge |-> identity])

\* unlock rows of the given badges
SeedUnlocks(ids) ==
  [i \in 1..Len(ids) |->
     UnlockRow(UserId, Wallet, ids[i], "transaction", "", LaunchDay)]

\* badges every user active since the launch day holds
Early == <<1, 4, 7, 8, 9, 10>>

Seed(t, table, ids) == [now |-> t, progress |-> table, unlocks |-> SeedUnlocks(ids)]

\* states the service is in between two events of a user: a new user during
\* and after the launch windows, and users one event away from a threshold
Seeds ==
  { Seed(LaunchDay, <<>>, <<>>),
    Seed(LaunchDay + 8, <<>>, <<>>),
    \* second day, one transaction the day before
    Seed(LaunchDay + 1, <<SeedRow(1, 1, 1, LaunchDay, 1, 0, 0, "newcomer")>>, Early),
    \* seventh day of a streak, three protocols, four shares
    Seed(LaunchDay + 6, <<SeedRow(6, 3, 6, LaunchDay + 5, 6, 4, 60, "newcomer")>>, Early),
    \* fourteenth day of a streak, four protocols, nine shares
    Seed(LaunchDay + 13, <<SeedRow(20, 4, 13, LaunchDay + 12, 13, 9, 50, "active")>>,
         Early \o <<2>>),
    \* thirtieth day of a streak, nine protocols, 99 transactions
    Seed(LaunchDay + 29, <<SeedRow(99, 9, 29, LaunchDay + 28, 29, 10, 100, "active")>>,
         Early \o <<2, 6, 5>>),
    \* streak of eight days broken two days ago
    Seed(LaunchDay + 10, <<SeedRow(8, 3, 8, LaunchDay + 8, 8, 1, 0, "active")>>,
         Early \o <<2>>) }

AnnouncedOf(table) ==
  [slug \in {Catalog[i].slug : i \in 1..Len(Catalog)} |->
     Cardinality({i \in 1..Len(table) : BadgeById(table[i].badge_id).slug = slug})]

ZeroScoreInput == ZeroRow(UserId, Wallet)

InitHandler(seed, limit) ==
  /\ failLimit = limit
  /\ now = seed.now
  /\ dayAdv = 0
  /\ user_badge_progress = seed.progress
  /\ badge_unlocks = seed.unlocks
  /\ req = [r \in Reqs |-> IdleReq]
  /\ started = 0
  /\ failures = 0
  /\ announced = AnnouncedOf(seed.unlocks)

InitScoreIdle ==
  /\ sp = ZeroScoreInput
  /\ sr = 0
  /\ bumps = 0

\* the criteria specification before it runs
InitCriteriaIdle ==
  /\ evBadge = Catalog[1]
  /\ evProgress = ZeroScoreInput
  /\ evNow = LaunchDay
  /\ evResult = FALSE
  /\ evCount = 0

\* a campaigns row that does not exist
NoCampaign == [status |-> "", caption |-> ""]

CampaignIds == {1, 2}

NoOp == [op |-> "none", id |-> 0, row |-> NoCampaign, ok |-> TRUE]

\* the campaigns table before the first insert
InitCampaign ==
  /\ campaigns = [c \in CampaignIds |-> NoCampaign]
  /\ statusTrail = [c \in CampaignIds |-> <<>>]
  /\ lastOp = NoOp
  /\ ops = 0

InitOthersIdle == InitScoreIdle /\ InitCriteriaIdle /\ InitCampaign

Init == (\E seed \in Seeds : InitHandler(seed, MaxFailures)) /\ InitOthersIdle

(* ------------------------------ handler ------------------------------- *)

\* a datastore call may fail for reasons outside the program
MayFail == failures < failLimit

\* a datastore error that the handler throws: the catch block answers
Throw(r, call) ==
  req' = [req EXCEPT ![r].pc = "done", ![r].resp = Resp500,
                     ![r].failed = @ \cup {call}]

\* faulty variant: the switch has a default branch that skips the evaluation
AfterProgress_defaultSkips(action) ==
  IF action \in {"transaction", "social_share"} THEN "apply"
  ELSE IF action \in {"daily_check", "event_window"} THEN "badges"
  ELSE "final"

\* position after the progress row is available: the switch on action
AfterProgress(action) ==
  IF action \in {"transaction", "social_share"} THEN "apply" ELSE "badges"

\* faulty variant: only userId is validated
Receive_onlyChecksUser(r, body, userId, walletAddress, limit) ==
  /\ ~ InFlight(r)
  /\ started < limit
  /\ started' = started + 1
  /\ LET fresh == [IdleReq EXCEPT !.action = body.action, !.eventData = body.eventData,
                                  !.userId = userId, !.walletAddress = walletAddress]
         found == ProgressOf(user_badge_progress, userId)
     IN  IF userId = ""
         THEN /\ req' = [req EXCEPT ![r] = [fresh EXCEPT !.pc = "done", !.resp = Resp400]]
              /\ UNCHANGED failures
         ELSE \/ /\ Len(found) = 1
                 /\ req' = [req EXCEPT ![r] = [fresh EXCEPT !.pc = AfterProgress(body.action),
                                                            !.progress = found[1]]]
                 /\ UNCHANGED failures
              \/ /\ Len(found) # 1
                 /\ req' = [req EXCEPT ![r] = [fresh EXCEPT !.pc = "create"]]
                 /\ UNCHANGED failures
              \/ /\ MayFail
                 /\ failures' = failures + 1
                 /\ req' = [req EXCEPT ![r] = [fresh EXCEPT !.pc = "done", !.resp = Resp500,
                                                            !.failed = {"select_progress"}]]
  /\ UNCHANGED <<now, dayAdv, dbVars, announced, failLimit, scoreVars, criteriaVars, campaignVars>>

\* req.json(), validation, and the lookup of the progress row
Receive(r, body, userId, walletAddress, limit) ==
  /\ ~ InFlight(r)
  /\ started < limit
  /\ started' = started + 1
  /\ LET fresh == [IdleReq EXCEPT !.action = body.action, !.eventData = body.eventData,
                                  !.userId = userId, !.walletAddress = walletAddress]
         found == ProgressOf(user_badge_progress, userId)
     IN  IF userId = "" \/ walletAddress = ""
         THEN /\ req' = [req EXCEPT ![r] = [fresh EXCEPT !.pc = "done", !.resp = Resp400]]
              /\ UNCHANGED failures
         ELSE \/ /\ Len(found) = 1
                 /\ req' = [req EXCEPT ![r] = [fresh EXCEPT !.pc = AfterProgress(body.action),
                                                            !.progress = found[1]]]
                 /\ UNCHANGED failures
              \/ /\ Len(found) # 1
                 /\ req' = [req EXCEPT ![r] = [fresh EXCEPT !.pc = "create"]]
                 /\ UNCHANGED failures
              \/ /\ MayFail
                 /\ failures' = failures + 1
                 /\ req' = [req EXCEPT ![r] = [fresh EXCEPT !.pc = "done", !.resp = Resp500,
                                                            !.failed = {"select_progress"}]]
  /\ UNCHANGED <<now, dayAdv, dbVars, announced, failLimit, scoreVars, criteriaVars, campaignVars>>

\* faulty variant: the request that creates the row does not apply its event
CreateProgress_skipsEvent(r) ==
  /\ req[r].pc = "create"
  /\ LET newProgress == ZeroRow(req[r].userId, req[r].walletAddress) IN
     \/ /\ UniqueUserProgress(user_badge_progress, newProgress)
        /\ user_badge_progress' = Append(user_badge_progress, newProgress)
        /\ req' = [req EXCEPT ![r].pc = "badges",
                              ![r].progress = newProgress,
                              ![r].created = TRUE]
        /\ UNCHANGED failures
     \/ /\ ~ UniqueUserProgress(user_badge_progress, newProgress)
        /\ Throw(r, "insert_progress")
        /\ UNCHANGED <<user_badge_progress, failures>>
     \/ /\ MayFail
        /\ failures' = failures + 1
        /\ Throw(r, "insert_progress")
        /\ UNCHANGED user_badge_progress
  /\ UNCHANGED <<now, dayAdv, badge_unlocks, started, announced, failLimit, scoreVars, criteriaVars, campaignVars>>

\* insert of a new progress row
CreateProgress(r) ==
  /\ req[r].pc = "create"
  /\ LET newProgress == ZeroRow(req[r].userId, req[r].walletAddress) IN
     \/ /\ UniqueUserProgress(user_badge_progress, newProgress)
        /\ user_badge_progress' = Append(user_badge_progress, newProgress)
        /\ req' = [req EXCEPT ![r].pc = AfterProgress(req[r].action),
                              ![r].progress = newProgress,
                              ![r].created = TRUE]
        /\ UNCHANGED failures
     \/ /\ ~ UniqueUserProgress(user_badge_progress, newProgress)
        /\ Throw(r, "insert_progress")
        /\ UNCHANGED <<user_badge_progress, failures>>
     \/ /\ MayFail
        /\ failures' = failures + 1
        /\ Throw(r, "insert_progress")
        /\ UNCHANGED user_badge_progress
  /\ UNCHANGED <<now, dayAdv, badge_unlocks, started, announced, failLimit, scoreVars, criteriaVars, campaignVars>>

\* variant: the transaction count is incremented in the datastore, not from
\* the row read at the start of the request
ApplyTransaction_atomicIncrement(r) ==
  /\ req[r].pc = "apply"
  /\ req[r].action = "transaction"
  /\ LET read == TransactionUpdate(req[r].progress, req[r].eventData, now)
         cols == IF Len(ProgressOf(user_badge_progress, req[r].userId)) = 1
                 THEN [read EXCEPT !.total_transactions =
                         ProgressOf(user_badge_progress, req[r].userId)[1].total_transactions + 1]
                 ELSE read
     IN
     \/ /\ user_badge_progress' = UpdateProgress(user_badge_progress, req[r].userId, cols)
        /\ req' = [req EXCEPT ![r].pc = "badges",
                              ![r].progress = Patch(req[r].progress, read)]
        /\ UNCHANGED failures
     \/ /\ MayFail
        /\ failures' = failures + 1
        /\ Throw(r, "update_counters")
        /\ UNCHANGED user_badge_progress
  /\ UNCHANGED <<now, dayAdv, badge_unlocks, started, announced, failLimit, scoreVars, criteriaVars, campaignVars>>

\* case 'transaction'
ApplyTransaction(r) ==
  /\ req[r].pc = "apply"
  /\ req[r].action = "transaction"
  /\ LET cols == TransactionUpdate(req[r].progress, req[r].eventData, now) IN
     \/ /\ user_badge_progress' = UpdateProgress(user_badge_progress, req[r].userId, cols)
        /\ req' = [req EXCEPT ![r].pc = "badges",
                              ![r].progress = Patch(req[r].progress, cols)]
        /\ UNCHANGED failures
     \/ /\ MayFail
        /\ failures' = failures + 1
        /\ Throw(r, "update_counters")
        /\ UNCHANGED user_badge_progress
  /\ UNCHANGED <<now, dayAdv, badge_unlocks, started, announced, failLimit, scoreVars, criteriaVars, campaignVars>>

\* case 'social_share'
ApplySocialShare(r) ==
  /\ req[r].pc = "apply"
  /\ req[r].action = "social_share"
  /\ LET cols == SocialShareUpdate(req[r].progress, req[r].eventData) IN
     \/ /\ user_badge_progress' = UpdateProgress(user_badge_progress, req[r].userId, cols)
        /\ req' = [req EXCEPT ![r].pc = "badges",
                              ![r].progress =
                                 Patch(req[r].progress,
                                       [social_shares |-> cols.social_shares,
                                        total_engagement |-> cols.total_engagement])]
        /\ UNCHANGED failures
     \/ /\ MayFail
        /\ failures' = failures + 1
        /\ Throw(r, "update_counters")
        /\ UNCHANGED user_badge_progress
  /\ UNCHANGED <<now, dayAdv, badge_unlocks, started, announced, failLimit, scoreVars, criteriaVars, campaignVars>>

\* select of the active badges
\* faulty variant: a daily_check is recorded as activity of the day
LoadBadges_dailyCheckTouches(r) ==
  /\ req[r].pc = "badges"
  /\ \/ /\ req' = [req EXCEPT ![r].pc = "unlocks", ![r].badges = ActiveBadges]
        /\ user_badge_progress' =
             IF req[r].action = "daily_check"
             THEN UpdateProgress(user_badge_progress, req[r].userId,
                                 [last_active_date |-> Date(now)])
             ELSE user_badge_progress
        /\ UNCHANGED <<badge_unlocks, failures>>
     \/ /\ MayFail
        /\ failures' = failures + 1
        /\ Throw(r, "select_badges")
        /\ UNCHANGED dbVars
  /\ UNCHANGED <<now, dayAdv, started, announced, failLimit, scoreVars, criteriaVars, campaignVars>>

LoadBadges(r) ==
  /\ req[r].pc = "badges"
  /\ \/ /\ req' = [req EXCEPT ![r].pc = "unlocks", ![r].badges = ActiveBadges]
        /\ UNCHANGED failures
     \/ /\ MayFail
        /\ failures' = failures + 1
        /\ Throw(r, "select_badges")
  /\ UNCHANGED <<now, dayAdv, dbVars, started, announced, failLimit, scoreVars, criteriaVars, campaignVars>>

\* position after the badge loop ran up to index i
LoopAt(r, i, unlockedBadgeIds) ==
  LET next == NextInsert(req[r].badges, unlockedBadgeIds, req[r].progress, now, i)
  IN  [pc |-> IF next <= Len(req[r].badges) THEN "insert" ELSE "final", idx |-> next]

\* faulty variant: a failed load of the unlocks counts as an empty list
LoadUnlocks_ignoresError(r) ==
  /\ req[r].pc = "unlocks"
  /\ \/ LET ids == {badge_unlocks[i].badge_id : i \in
                      {j \in 1..Len(badge_unlocks) :
                         badge_unlocks[j].user_id = req[r].userId}}
            at == LoopAt(r, 1, ids)
        IN  /\ req' = [req EXCEPT ![r].pc = at.pc, ![r].idx = at.idx,
                                  ![r].unlockedBadgeIds = ids]
            /\ UNCHANGED failures
     \/ /\ MayFail
        /\ failures' = failures + 1
        /\ LET at == LoopAt(r, 1, {}) IN
             req' = [req EXCEPT ![r].pc = at.pc, ![r].idx = at.idx,
                                ![r].failed = @ \cup {"select_unlocks"}]
  /\ UNCHANGED <<now, dayAdv, dbVars, started, announced, failLimit, scoreVars, criteriaVars, campaignVars>>

\* select of the user's unlocks, then the loop up to its first insert
LoadUnlocks(r) ==
  /\ req[r].pc = "unlocks"
  /\ \/ LET ids == {badge_unlocks[i].badge_id : i \in
                      {j \in 1..Len(badge_unlocks) :
                         badge_unlocks[j].user_id = req[r].userId}}
            at == LoopAt(r, 1, ids)
        IN  /\ req' = [req EXCEPT ![r].pc = at.pc, ![r].idx = at.idx,
                                  ![r].unlockedBadgeIds = ids]
            /\ UNCHANGED failures
     \/ /\ MayFail
        /\ failures' = failures + 1
        /\ Throw(r, "select_unlocks")
  /\ UNCHANGED <<now, dayAdv, dbVars, started, announced, failLimit, scoreVars, criteriaVars, campaignVars>>

\* faulty variant: an insert error is thrown like every other datastore error
InsertUnlock_abortsOnError(r) ==
  /\ req[r].pc = "insert"
  /\ LET badge == req[r].badges[req[r].idx]
         rec == UnlockRow(req[r].userId, req[r].walletAddress, badge.id,
                          req[r].action, req[r].eventData.txHash, now)
         at == LoopAt(r, req[r].idx + 1, req[r].unlockedBadgeIds)
         moved == [req[r] EXCEPT !.pc = at.pc, !.idx = at.idx,
                                 !.tried = @ \cup {badge.id}]
     IN  \/ /\ UniqueUserBadge(badge_unlocks, rec)
            /\ badge_unlocks' = Append(badge_unlocks, rec)
            /\ req' = [req EXCEPT ![r] = [moved EXCEPT !.newUnlocks = Append(@, badge.slug)]]
            /\ announced' = [announced EXCEPT ![badge.slug] = @ + 1]
            /\ UNCHANGED failures
         \/ /\ ~ UniqueUserBadge(badge_unlocks, rec)
            /\ Throw(r, "insert_unlock")
            /\ UNCHANGED <<badge_unlocks, announced, failures>>
         \/ /\ MayFail
            /\ failures' = failures + 1
            /\ Throw(r, "insert_unlock")
            /\ UNCHANGED <<badge_unlocks, announced>>
  /\ UNCHANGED <<now, dayAdv, user_badge_progress, started, failLimit, scoreVars, criteriaVars, campaignVars>>

\* faulty variant: the slug is listed whatever the insert returned
InsertUnlock_alwaysLists(r) ==
  /\ req[r].pc = "insert"
  /\ LET badge == req[r].badges[req[r].idx]
         rec == UnlockRow(req[r].userId, req[r].walletAddress, badge.id,
                          req[r].action, req[r].eventData.txHash, now)
         at == LoopAt(r, req[r].idx + 1, req[r].unlockedBadgeIds)
         moved == [req[r] EXCEPT !.pc = at.pc, !.idx = at.idx,
                                 !.tried = @ \cup {badge.id}]
     IN  \/ /\ UniqueUserBadge(badge_unlocks, rec)
            /\ badge_unlocks' = Append(badge_unlocks, rec)
            /\ req' = [req EXCEPT ![r] = [moved EXCEPT !.newUnlocks = Append(@, badge.slug)]]
            /\ announced' = [announced EXCEPT ![badge.slug] = @ + 1]
            /\ UNCHANGED failures
         \/ /\ ~ UniqueUserBadge(badge_unlocks, rec)
            /\ req' = [req EXCEPT ![r] = [moved EXCEPT !.failed = @ \cup {"insert_unlock"},
                                                        !.newUnlocks = Append(@, badge.slug)]]
            /\ UNCHANGED <<badge_unlocks, announced, failures>>
         \/ /\ MayFail
            /\ failures' = failures + 1
            /\ req' = [req EXCEPT ![r] = [moved EXCEPT !.failed = @ \cup {"insert_unlock"},
                                                        !.newUnlocks = Append(@, badge.slug)]]
            /\ UNCHANGED <<badge_unlocks, announced>>
  /\ UNCHANGED <<now, dayAdv, user_badge_progress, started, failLimit, scoreVars, criteriaVars, campaignVars>>

\* insert of one unlock row, then the loop up to its next insert
InsertUnlock(r) ==
  /\ req[r].pc = "insert"
  /\ LET badge == req[r].badges[req[r].idx]
         rec == UnlockRow(req[r].userId, req[r].walletAddress, badge.id,
                          req[r].action, req[r].eventData.txHash, now)
         at == LoopAt(r, req[r].idx + 1, req[r].unlockedBadgeIds)
         moved == [req[r] EXCEPT !.pc = at.pc, !.idx = at.idx,
                                 !.tried = @ \cup {badge.id}]
     IN  \/ /\ UniqueUserBadge(badge_unlocks, rec)
            /\ badge_unlocks' = Append(badge_unlocks, rec)
            /\ req' = [req EXCEPT ![r] = [moved EXCEPT !.newUnlocks = Append(@, badge.slug)]]
            /\ announced' = [announced EXCEPT ![badge.slug] = @ + 1]
            /\ UNCHANGED failures
         \/ /\ ~ UniqueUserBadge(badge_unlocks, rec)
            /\ req' = [req EXCEPT ![r] = [moved EXCEPT !.failed = @ \cup {"insert_unlock"}]]
            /\ UNCHANGED <<badge_unlocks, announced, failures>>
         \/ /\ MayFail
            /\ failures' = failures + 1
            /\ req' = [req EXCEPT ![r] = [moved EXCEPT !.failed = @ \cup {"insert_unlock"}]]
            /\ UNCHANGED <<badge_unlocks, announced>>
  /\ UNCHANGED <<now, dayAdv, user_badge_progress, started, failLimit, scoreVars, criteriaVars, campaignVars>>

\* score, identity badge, their update (whose error is not read), response
FinalUpdate(r) ==
  /\ req[r].pc = "final"
  /\ LET intentScore == calculateIntentScore(req[r].progress)
         currentIdentityBadge ==
           IdentityBadgeOf(req[r].badges, req[r].unlockedBadgeIds, req[r].newUnlocks)
         answered == [req[r] EXCEPT !.pc = "done",
                                    !.resp = SuccessResponse(req[r].newUnlocks, intentScore,
                                                             currentIdentityBadge,
                                                             req[r].progress)]
     IN  \/ /\ user_badge_progress' =
                 UpdateProgress(user_badge_progress, req[r].userId,
                                [intent_score |-> StoreScore(intentScore),
                                 current_identity_badge |-> currentIdentityBadge])
            /\ req' = [req EXCEPT ![r] = answered]
            /\ UNCHANGED failures
         \/ /\ MayFail
            /\ failures' = failures + 1
            /\ req' = [req EXCEPT ![r] = [answered EXCEPT !.failed = @ \cup {"update_final"}]]
            /\ UNCHANGED user_badge_progress
  /\ UNCHANGED <<now, dayAdv, badge_unlocks, started, announced, failLimit, scoreVars, criteriaVars, campaignVars>>

\* midnight passes
AdvanceDay ==
  /\ dayAdv < MaxDayAdvance
  /\ \A r \in Reqs : ~ InFlight(r)
  /\ now' = now + 1
  /\ dayAdv' = dayAdv + 1
  /\ UNCHANGED <<dbVars, req, started, failures, announced, failLimit, scoreVars, criteriaVars, campaignVars>>

Step(r) ==
  \/ CreateProgress(r)
  \/ ApplyTransaction(r)
  \/ ApplySocialShare(r)
  \/ LoadBadges(r)
  \/ LoadUnlocks(r)
  \/ InsertUnlock(r)
  \/ FinalUpdate(r)

\* events of the user handled one at a time
Next ==
  \/ \E body \in Requests, u \in {UserId, ""}, w \in {Wallet, ""} :
       Receive(1, body, u, w, MaxEvents)
  \/ Step(1)
  \/ AdvanceDay

Spec == Init /\ [][Next]_vars

\* events of the user handled concurrently in two request slots
ConcSeeds ==
  { Seed(LaunchDay, <<>>, <<>>),
    Seed(LaunchDay + 6, <<SeedRow(6, 3, 6, LaunchDay + 5, 6, 4, 60, "newcomer")>>, Early) }

InitConc == (\E seed \in ConcSeeds : InitHandler(seed, 0)) /\ InitOthersIdle

\* request bodies of the concurrent clients
ConcRequests ==
  { [action |-> "transaction", eventData |-> EventData("arcflow", "0xabc", 0)],
    [action |-> "transaction", eventData |-> EventData("aave", "", 0)],
    [action |-> "social_share", eventData |-> EventData("", "", 50)] }

NextConc ==
  \/ \E r \in Reqs, body \in ConcRequests :
       Receive(r, body, UserId, Wallet, MaxConcEvents)
  \/ \E r \in Reqs : Step(r)
  \/ AdvanceDay

SpecConc == InitConc /\ [][NextConc]_vars

\* a new user, and a user one protocol away from a protocol threshold
LiveSeeds ==
  { Seed(LaunchDay, <<>>, <<>>),
    Seed(LaunchDay + 13, <<SeedRow(20, 4, 13, LaunchDay + 12, 13, 9, 50, "active")>>,
         Early \o <<2>>) }

InitLive == (\E seed \in LiveSeeds : InitHandler(seed, MaxFailures)) /\ InitOthersIdle

\* request bodies of the events that keep arriving
LiveRequests ==
  { [action |-> "transaction", eventData |-> EventData("aave", "0xabc", 0)],
    [action |-> "social_share", eventData |-> EventData("", "", 50)],
    [action |-> "daily_check", eventData |-> NoEvent] }

\* events of the user keep arriving and every request runs to its answer
NextLive ==
  \/ \E body \in LiveRequests : Receive(1, body, UserId, Wallet, MaxEvents)
  \/ Step(1)

SpecLive ==
  /\ InitLive
  /\ [][NextLive]_vars
  /\ WF_vars(Step(1))
  /\ WF_vars(\E body \in LiveRequests : Receive(1, body, UserId, Wallet, MaxEvents))

(* ------------------------- score specification ------------------------ *)

\* counters on both sides of every cap of the calculator
ScoreInputs ==
  { Patch(ZeroScoreInput,
          [total_transactions |-> tx, unique_protocols |-> k,
           consecutive_days |-> d, max_consecutive_days |-> m,
           social_shares |-> sh]) :
      tx \in {0, 49, 99, 100}, k \in {0, 4, 9, 10}, d \in {0, 9, 29, 30},
      m \in {0, 14, 29, 30}, sh \in {0, 4, 9, 10} }

ScoreFields == {"total_transactions", "unique_protocols", "consecutive_days",
                "max_consecutive_days", "social_shares"}

OtherFields == {"total_engagement", "voice_state"}

InitScore ==
  /\ InitHandler(Seed(LaunchDay, <<>>, <<>>), 0)
  /\ sp \in ScoreInputs
  /\ sr = calculateIntentScore(sp)
  /\ bumps = 0
  /\ InitCriteriaIdle
  /\ InitCampaign

\* one counter the score reads grows by one; the score is computed again
ScoreBump(f) ==
  /\ bumps < MaxBumps
  /\ bumps' = bumps + 1
  /\ sp' = [sp EXCEPT ![f] = @ + 1]
  /\ sr' = calculateIntentScore(sp')
  /\ UNCHANGED <<handlerVars, criteriaVars, campaignVars>>

\* a field the score does not read changes; the score is computed again
ScoreOther(f) ==
  /\ bumps < MaxBumps
  /\ bumps' = bumps + 1
  /\ sp' = [sp EXCEPT ![f] = @ + 1]
  /\ sr' = calculateIntentScore(sp')
  /\ UNCHANGED <<handlerVars, criteriaVars, campaignVars>>

NextScore ==
  \/ \E f \in ScoreFields : ScoreBump(f)
  \/ \E f \in OtherFields : ScoreOther(f)

SpecScore == InitScore /\ [][NextScore]_vars

(* ----------------------- criteria specification ---------------------- *)

\* badges with no, one or both bounds of the event window set
WindowBadges ==
  { [b EXCEPT !.event_window_start = ws, !.event_window_end = we] :
      b \in {BadgeById(1), BadgeById(7), BadgeById(10)},
      ws \in {NullDate, Date(LaunchDay)},
      we \in {NullDate, Date(LaunchDay + 1)} }

InitCriteria ==
  /\ InitHandler(Seed(LaunchDay, <<>>, <<>>), 0)
  /\ InitScoreIdle
  /\ InitCampaign
  /\ evBadge \in WindowBadges
  /\ evProgress = ZeroScoreInput
  /\ evNow = LaunchDay - 1
  /\ evResult = checkBadgeCriteria(evBadge, evProgress, evNow)
  /\ evCount = 0

\* the badge is evaluated again a day later
EvaluateLater ==
  /\ evCount < MaxEvaluations
  /\ evCount' = evCount + 1
  /\ evNow' = evNow + 1
  /\ evResult' = checkBadgeCriteria(evBadge, evProgress, evNow')
  /\ UNCHANGED <<evBadge, evProgress, handlerVars, scoreVars, campaignVars>>

\* the badge is evaluated again after a transaction of the user
EvaluateAfterTransaction ==
  /\ evCount < MaxEvaluations
  /\ evCount' = evCount + 1
  /\ evProgress' = Patch(evProgress,
                         TransactionUpdate(evProgress, EventData("arcflow", "", 0), evNow))
  /\ evResult' = checkBadgeCriteria(evBadge, evProgress', evNow)
  /\ UNCHANGED <<evBadge, evNow, handlerVars, scoreVars, campaignVars>>

NextCriteria ==
  \/ EvaluateLater
  \/ EvaluateAfterTransaction

SpecCriteria == InitCriteria /\ [][NextCriteria]_vars

(* ----------------------- campaign specification ---------------------- *)

\* status values the clients send
StatusInputs == {"draft", "generated", "finalized", "shared", "minted"}

Captions == {"a", "b"}

\* CONSTRAINT campaigns_status_check
campaigns_status_check(row) ==
  row.status \in {"draft", "generated", "finalized", "shared"}

\* faulty variant: a draft may be finalized without having been generated
validate_campaign_state_transition_skipsGenerated(TG_OP, old, new) ==
  IF TG_OP = "INSERT" /\ new.status # "draft" THEN FALSE
  ELSE IF /\ TG_OP = "UPDATE" /\ old.status # new.status
          /\ ~ (\/ old.status = "draft" /\ new.status \in {"generated", "finalized"}
                \/ old.status = "generated" /\ new.status \in {"finalized", "draft"}
                \/ old.status = "finalized" /\ new.status = "shared")
       THEN FALSE
  ELSE TRUE

\* faulty variant: a shared campaign may be reopened as a draft
validate_campaign_state_transition_reopens(TG_OP, old, new) ==
  IF TG_OP = "INSERT" /\ new.status # "draft" THEN FALSE
  ELSE IF /\ TG_OP = "UPDATE" /\ old.status # new.status
          /\ ~ (\/ old.status = "draft" /\ new.status = "generated"
                \/ old.status = "generated" /\ new.status \in {"finalized", "draft"}
                \/ old.status = "finalized" /\ new.status = "shared"
                \/ old.status = "shared" /\ new.status = "draft")
       THEN FALSE
  ELSE TRUE

\* the trigger function: FALSE where it raises, TRUE where it returns NEW
validate_campaign_state_transition(TG_OP, old, new) ==
  IF TG_OP = "INSERT" /\ new.status # "draft" THEN FALSE
  ELSE IF /\ TG_OP = "UPDATE" /\ old.status # new.status
          /\ ~ (\/ old.status = "draft" /\ new.status = "generated"
                \/ old.status = "generated" /\ new.status \in {"finalized", "draft"}
                \/ old.status = "finalized" /\ new.status = "shared")
       THEN FALSE
  ELSE TRUE

\* INSERT INTO campaigns, under the trigger and the check constraint
InsertCampaign(c, row) ==
  /\ ops < MaxCampaignOps
  /\ campaigns[c] = NoCampaign
  /\ LET ok == /\ validate_campaign_state_transition("INSERT", NoCampaign, row)
               /\ campaigns_status_check(row)
     IN  /\ campaigns' = IF ok THEN [campaigns EXCEPT ![c] = row] ELSE campaigns
         /\ statusTrail' = IF ok THEN [statusTrail EXCEPT ![c] = <<row.status>>]
                           ELSE statusTrail
         /\ lastOp' = [op |-> "INSERT", id |-> c, row |-> row, ok |-> ok]
  /\ ops' = ops + 1
  /\ UNCHANGED <<handlerVars, scoreVars, criteriaVars>>

\* UPDATE campaigns SET ... WHERE id = c, under the trigger and the constraint
UpdateCampaign(c, row) ==
  /\ ops < MaxCampaignOps
  /\ campaigns[c] # NoCampaign
  /\ LET ok == /\ validate_campaign_state_transition("UPDATE", campaigns[c], row)
               /\ campaigns_status_check(row)
     IN  /\ campaigns' = IF ok THEN [campaigns EXCEPT ![c] = row] ELSE campaigns
         /\ statusTrail' = IF ok /\ row.status # campaigns[c].status
                           THEN [statusTrail EXCEPT ![c] = Append(@, row.status)]
                           ELSE statusTrail
         /\ lastOp' = [op |-> "UPDATE", id |-> c, row |-> row, ok |-> ok]
  /\ ops' = ops + 1
  /\ UNCHANGED <<handlerVars, scoreVars, criteriaVars>>

NextCampaign ==
  \/ \E c \in CampaignIds, status \in StatusInputs, caption \in Captions :
       InsertCampaign(c, [status |-> status, caption |-> caption])
  \/ \E c \in CampaignIds, status \in StatusInputs, caption \in Captions :
       UpdateCampaign(c, [status |-> status, caption |-> caption])

InitCampaignSpec ==
  /\ InitHandler(Seed(LaunchDay, <<>>, <<>>), 0)
  /\ InitScoreIdle
  /\ InitCriteriaIdle
  /\ InitCampaign

SpecCampaign == InitCampaignSpec /\ [][NextCampaign]_vars

(* ============================ properties ============================== *)

HasRow == Len(user_badge_progress) >= 1

TheRow == user_badge_progress[1]

UnlockedIds == {badge_unlocks[i].badge_id : i \in 1..Len(badge_unlocks)}

Succeeded(r) == req[r].pc = "done" /\ req[r].resp.status = 200

HasWindow(b) == b.event_window_start # NullDate /\ b.event_window_end # NullDate

\* slug of the unlocked identity progression badge of highest order
HighestUnlockedIdentity ==
  LET held == {b \in Range(Catalog) :
                 b.layer = "identity" /\ b.is_progression /\ b.id \in UnlockedIds}
  IN  IF held = {} THEN NoBadge
      ELSE (CHOOSE b \in held :
              \A c \in held : c.progression_order <= b.progression_order).slug

\* C1: with events handled one at a time and every datastore call
\* succeeding, the persisted and the returned currentIdentityBadge are the
\* slug of the unlocked identity progression badge of highest
\* progressionOrder, and none when no such badge is unlocked.
C1_IdentityBadgeIsHighest ==
  (failures = 0 /\ \A r \in Reqs : ~ InFlight(r)) =>
    /\ HasRow => TheRow.current_identity_badge = HighestUnlockedIdentity
    /\ \A r \in Reqs :
         Succeeded(r) => req[r].resp.currentIdentityBadge = HighestUnlockedIdentity

C1_Witness ==
  /\ failures = 0
  /\ Succeeded(1)
  /\ Includes(req[1].newUnlocks, "legend")
  /\ TheRow.current_identity_badge = "legend"

UnlocksUnique ==
  \A i, j \in 1..Len(badge_unlocks) :
    (badge_unlocks[i].user_id = badge_unlocks[j].user_id
     /\ badge_unlocks[i].badge_id = badge_unlocks[j].badge_id) => i = j

UnlocksKept ==
  /\ Len(badge_unlocks') >= Len(badge_unlocks)
  /\ \A i \in 1..Len(badge_unlocks) : badge_unlocks'[i] = badge_unlocks[i]

\* C2: also with concurrent events there is at most one unlock row per
\* (user, badge), and a row once present is never removed or replaced.
C2_UnlocksUniqueAndKept == [] UnlocksUnique /\ [][UnlocksKept]_vars

C2_Witness ==
  /\ req[1].tried \cap req[2].tried # {}
  /\ \A r \in Reqs : Succeeded(r)

\* C3: a transaction event keeps consecutiveDays when lastActiveDate is
\* today, adds 1 when it is yesterday, and sets it to 1 otherwise.
C3_Streak ==
  [][\A r \in Reqs :
       (req[r].pc = "apply" /\ req[r].action = "transaction" /\ req'[r].pc = "badges") =>
         user_badge_progress'[1].consecutive_days =
           IF user_badge_progress[1].last_active_date = Date(now)
             THEN user_badge_progress[1].consecutive_days
           ELSE IF user_badge_progress[1].last_active_date = Date(now - 1)
             THEN user_badge_progress[1].consecutive_days + 1
           ELSE 1]_vars

C3_Witness ==
  /\ req[1].pc = "badges"
  /\ req[1].action = "transaction"
  /\ TheRow.consecutive_days = 30
  /\ TheRow.last_active_date = Date(now)

\* C4: the persisted maxConsecutiveDays never decreases.
C4_MaxNeverDecreases ==
  [][HasRow => user_badge_progress'[1].max_consecutive_days
                 >= user_badge_progress[1].max_consecutive_days]_vars

C4_Witness ==
  /\ Succeeded(1)
  /\ req[1].action = "transaction"
  /\ TheRow.consecutive_days = 1
  /\ TheRow.max_consecutive_days = 8

\* C5: with events handled one at a time, a badge in the unlock set is
\* skipped: no insert is attempted for it, it is not listed again, and every
\* slug is listed in the newUnlocks of at most one event.
C5_UnlockedIsSkipped ==
  /\ \A slug \in DOMAIN announced : announced[slug] <= 1
  /\ \A r \in Reqs :
       /\ req[r].pc = "insert" => req[r].badges[req[r].idx].id \notin UnlockedIds
       /\ req[r].tried \cap req[r].unlockedBadgeIds = {}
       /\ \A b \in Range(Catalog) :
            Includes(req[r].newUnlocks, b.slug) => b.id \notin req[r].unlockedBadgeIds

C5_Witness ==
  /\ started = 2
  /\ Succeeded(1)
  /\ req[1].action = "transaction"
  /\ req[1].unlockedBadgeIds # {}
  /\ req[1].newUnlocks = <<>>
  /\ failures = 0

\* the criteria as the specification states them: every present key holds
CriteriaMet(b, p, t) ==
  LET c == b.criteria IN
  /\ "min_transactions" \in DOMAIN c => p.total_transactions >= c.min_transactions
  /\ "min_consecutive_days" \in DOMAIN c => p.consecutive_days >= c.min_consecutive_days
  /\ "min_protocols" \in DOMAIN c => p.unique_protocols >= c.min_protocols
  /\ ("verified_on_chain" \in DOMAIN c /\ c.verified_on_chain) => p.total_transactions >= 1
  /\ HasWindow(b) => (b.event_window_start[1] <= t /\ t <= b.event_window_end[1])

\* C6: a badge that is not yet unlocked gets an unlock attempt exactly when
\* all its present criteria hold of the progress as updated by the current
\* event and, for a badge with an event window, the time lies in the window.
C6_CriteriaExact ==
  \A r \in Reqs :
    (req[r].pc \in {"insert", "final"} /\ HasRow) =>
      \A j \in 1..Len(req[r].badges) :
        LET b == req[r].badges[j]
            attempted == b.id \in req[r].tried \/ (req[r].pc = "insert" /\ j = req[r].idx)
        IN  (j <= req[r].idx /\ b.id \notin req[r].unlockedBadgeIds) =>
              (attempted <=> CriteriaMet(b, TheRow, now))

C6_Witness ==
  /\ req[1].pc = "insert"
  /\ req[1].action = "transaction"
  /\ req[1].badges[req[1].idx].slug = "legend"
  /\ 6 \in req[1].unlockedBadgeIds
  /\ TheRow.total_transactions = 100

\* C7: a badge with both window bounds set is never unlocked at a time
\* before the start or after the end of its window.
C7_NoUnlockOutsideWindow ==
  \A i \in 1..Len(badge_unlocks) :
    LET b == BadgeById(badge_unlocks[i].badge_id) IN
    HasWindow(b) =>
      /\ b.event_window_start[1] <= badge_unlocks[i].unlocked_at
      /\ badge_unlocks[i].unlocked_at <= b.event_window_end[1]

C7_Witness ==
  /\ now > LaunchDay + 7
  /\ Succeeded(1)
  /\ Includes(req[1].newUnlocks, "newcomer")
  /\ Includes(req[1].newUnlocks, "voice")
  /\ UnlockedIds \cap {7, 8} = {}

\* C8: the score lies in [0, 10] and does not decrease when one of the five
\* counters it reads grows.
C8_ScoreBoundedMonotone ==
  /\ [] (0 <= sr /\ sr <= 10 * ScoreDen)
  /\ [][(\E f \in ScoreFields : sp' = [sp EXCEPT ![f] = @ + 1]) => sr' >= sr]_vars

C8_Witness ==
  /\ bumps >= 1
  /\ sp.total_transactions = 101
  /\ sp.consecutive_days = 30
  /\ sr = 10 * ScoreDen

\* one capped contribution n / den, cap `cap`, as a numerator over ScoreDen
Contribution(n, den, cap) ==
  IF n >= den * cap THEN cap * ScoreDen ELSE (n * ScoreDen) \div den

\* the closed form of the specification
ScoreFormula(p) ==
  LET sum == Contribution(p.total_transactions, 50, 2)
             + Contribution(p.unique_protocols, 5, 2)
             + Contribution(p.consecutive_days, 10, 3)
             + Contribution(p.max_consecutive_days, 15, 2)
             + Contribution(p.social_shares, 10, 1)
  IN  IF sum >= 10 * ScoreDen THEN 10 * ScoreDen ELSE sum

\* C9: the score is min(10, min(tx/50,2) + min(protocols/5,2) +
\* min(days/10,3) + min(maxDays/15,2) + min(shares/10,1)); totalEngagement
\* and voiceState do not influence it.
C9_ScoreFormula ==
  /\ [] (sr = ScoreFormula(sp))
  /\ [][(\E f \in OtherFields : sp' = [sp EXCEPT ![f] = @ + 1]) => sr' = sr]_vars

C9_Witness ==
  /\ bumps >= 1
  /\ sp.total_engagement >= 1
  /\ sp.max_consecutive_days = 14
  /\ sp.total_transactions = 49
  /\ sr < 10 * ScoreDen

\* C10: a social_share event adds 1 to the share count and the event's
\* engagement to the total engagement, and persists the voiceState of the
\* updated totals: 3 if shares >= 10 and engagement >= 100, else 2 if
\* shares >= 5, else 1 if shares >= 1, else 0.
C10_SocialShare ==
  [][\A r \in Reqs :
       (req[r].pc = "apply" /\ req[r].action = "social_share" /\ req'[r].pc = "badges") =>
         LET old == user_badge_progress[1]
             new == user_badge_progress'[1]
         IN  /\ new.social_shares = old.social_shares + 1
             /\ new.total_engagement = old.total_engagement + req[r].eventData.engagement
             /\ new.voice_state =
                  IF new.social_shares >= 10 /\ new.total_engagement >= 100 THEN 3
                  ELSE IF new.social_shares >= 5 THEN 2
                  ELSE IF new.social_shares >= 1 THEN 1
                  ELSE 0]_vars

C10_Witness ==
  /\ req[1].pc = "badges"
  /\ req[1].action = "social_share"
  /\ req[1].eventData.engagement = 50
  /\ TheRow.social_shares = 5
  /\ TheRow.total_engagement = 110
  /\ TheRow.voice_state = 2

\* a progress row with every counter at zero
IsZeroed(p) ==
  /\ p.total_transactions = 0 /\ p.unique_protocols = 0
  /\ p.protocols_interacted = <<>> /\ p.consecutive_days = 0
  /\ p.last_active_date = NullDate /\ p.max_consecutive_days = 0
  /\ p.social_shares = 0 /\ p.total_engagement = 0 /\ p.voice_state = 0

\* C11: the first event of a user without a progress row creates exactly one
\* zeroed row for (user, wallet) before the event is applied; a first
\* transaction with a protocol gives totalTransactions = uniqueProtocols =
\* consecutiveDays = 1 and lists every badge whose only criterion is
\* min_transactions = 1 in the newUnlocks of that same request (all datastore
\* calls succeeding).
C11_FirstEvent ==
  /\ [] (\A r \in Reqs :
           (/\ req[r].created /\ failures = 0 /\ Succeeded(r)
            /\ req[r].action = "transaction" /\ req[r].eventData.protocol # "") =>
             /\ Len(user_badge_progress) = 1
             /\ TheRow.total_transactions = 1
             /\ TheRow.unique_protocols = 1
             /\ TheRow.consecutive_days = 1
             /\ req[r].resp.progress =
                  [totalTransactions |-> 1, uniqueProtocols |-> 1, consecutiveDays |-> 1]
             /\ \A b \in Range(Catalog) :
                  (b.is_active /\ b.criteria = [min_transactions |-> 1] /\ ~ HasWindow(b))
                    => Includes(req[r].newUnlocks, b.slug))
  /\ [][\A r \in Reqs :
          (req[r].pc = "create" /\ req'[r].created) =>
            /\ user_badge_progress = <<>>
            /\ Len(user_badge_progress') = 1
            /\ IsZeroed(user_badge_progress'[1])
            /\ user_badge_progress'[1].user_id = req[r].userId
            /\ user_badge_progress'[1].wallet_address = req[r].walletAddress]_vars

C11_Witness ==
  /\ Succeeded(1)
  /\ req[1].created
  /\ failures = 0
  /\ req[1].action = "transaction"
  /\ req[1].eventData.protocol = "arcflow"
  /\ Includes(req[1].newUnlocks, "newcomer")
  /\ TheRow.protocols_interacted = <<"arcflow">>

\* C12: with events handled one at a time, a transaction event adds exactly
\* 1 to totalTransactions, adds its protocol to the protocol list exactly
\* when one is given and is not in the list, and sets lastActiveDate to
\* today; on the day of the last activity consecutiveDays is unchanged.
C12_Transaction ==
  [][\A r \in Reqs :
       (req[r].pc = "apply" /\ req[r].action = "transaction" /\ req'[r].pc = "badges") =>
         LET old == user_badge_progress[1]
             new == user_badge_progress'[1]
             protocol == req[r].eventData.protocol
         IN  /\ new.total_transactions = old.total_transactions + 1
             /\ new.protocols_interacted =
                  IF protocol # "" /\ protocol \notin Range(old.protocols_interacted)
                  THEN Append(old.protocols_interacted, protocol)
                  ELSE old.protocols_interacted
             /\ new.unique_protocols = Cardinality(Range(new.protocols_interacted))
             /\ new.last_active_date = Date(now)
             /\ old.last_active_date = Date(now) =>
                  new.consecutive_days = old.consecutive_days]_vars

C12_Witness ==
  /\ started = 2
  /\ req[1].pc = "badges"
  /\ req[1].action = "transaction"
  /\ req[1].eventData.protocol = "arcflow"
  /\ TheRow.total_transactions = 2
  /\ TheRow.protocols_interacted = <<"arcflow">>
  /\ TheRow.consecutive_days = 1
  /\ TheRow.last_active_date = Date(now)

Invalid(r) ==
  req[r].pc # "idle" /\ (req[r].userId = "" \/ req[r].walletAddress = "")

\* C13: a request without userId or without walletAddress is answered with
\* status 400 and an error payload, and it neither reads nor writes the
\* datastore.
C13_Validation ==
  /\ [] (\A r \in Reqs :
           Invalid(r) =>
             /\ req[r].pc = "done"
             /\ req[r].resp.status = 400
             /\ req[r].resp.error # ""
             /\ req[r].progress = NoRow /\ req[r].badges = <<>>
             /\ ~ req[r].created /\ req[r].tried = {} /\ req[r].failed = {})
  /\ [][\A r \in Reqs :
          (started' = started + 1 /\ Invalid(r)') => UNCHANGED dbVars]_vars

C13_Witness ==
  /\ req[1].pc = "done"
  /\ req[1].userId = UserId
  /\ req[1].walletAddress = ""
  /\ req[1].resp = Resp400
  /\ HasRow

Slugs(ids) == {BadgeById(id).slug : id \in ids}

\* C14: a failed unlock insert does not end the badge loop; the request
\* still answers with success, every remaining badge that meets its criteria
\* is tried, and newUnlocks lists exactly the badges whose insert succeeded
\* in this request.
C14_BestEffortInsert ==
  [][\A r \in Reqs :
       /\ (req[r].pc = "insert" /\ req'[r] # req[r]) =>
            req'[r].pc \in {"insert", "final"}
       /\ (req[r].pc = "final" /\ req'[r].pc = "done") =>
            /\ req'[r].resp.status = 200
            /\ req[r].tried =
                 {b.id : b \in {c \in Range(req[r].badges) :
                                  /\ c.id \notin req[r].unlockedBadgeIds
                                  /\ CriteriaMet(c, req[r].progress, now)}}
            /\ Range(req'[r].resp.newUnlocks) =
                 Slugs((req[r].tried \cap UnlockedIds) \ req[r].unlockedBadgeIds)]_vars

C14_Witness ==
  /\ Succeeded(1)
  /\ "insert_unlock" \in req[1].failed
  /\ 1 \in req[1].tried
  /\ 1 \notin UnlockedIds
  /\ ~ Includes(req[1].resp.newUnlocks, "newcomer")
  /\ Includes(req[1].resp.newUnlocks, "on-chain")
  /\ Includes(req[1].resp.newUnlocks, "voice")

\* C15: every datastore failure other than a failed unlock insert makes the
\* request answer with status 500 and the generic error payload.
C15_FailureGives500 ==
  \A r \in Reqs :
    (req[r].pc = "done" /\ req[r].failed \ {"insert_unlock"} # {}) =>
      req[r].resp = Resp500

\* C16 as claimed: the persisted intentScore is the returned one, which is
\* the calculator's value for the persisted counters, and the returned
\* counters are the persisted ones.
C16_ScorePersistedAsReturned ==
  \A r \in Reqs :
    (Succeeded(r) /\ failures = 0) =>
      /\ ScoreDen * TheRow.intent_score = 100 * req[r].resp.intentScore
      /\ req[r].resp.intentScore = ScoreFormula(TheRow)
      /\ req[r].resp.progress =
           [totalTransactions |-> TheRow.total_transactions,
            uniqueProtocols |-> TheRow.unique_protocols,
            consecutiveDays |-> TheRow.consecutive_days]

\* C16 as amended: the returned intentScore is the calculator's value for
\* the persisted counters, the persisted intentScore is that value rounded
\* to two decimals (at most 0.005 away), and the returned counters are the
\* persisted ones.
C16_ScorePersistedRounded ==
  \A r \in Reqs :
    (Succeeded(r) /\ failures = 0) =>
      /\ 2 * ScoreDen * TheRow.intent_score - 200 * req[r].resp.intentScore <= ScoreDen
      /\ 200 * req[r].resp.intentScore - 2 * ScoreDen * TheRow.intent_score <= ScoreDen
      /\ req[r].resp.intentScore = ScoreFormula(TheRow)
      /\ req[r].resp.progress =
           [totalTransactions |-> TheRow.total_transactions,
            uniqueProtocols |-> TheRow.unique_protocols,
            consecutiveDays |-> TheRow.consecutive_days]

C16_Witness ==
  /\ Succeeded(1)
  /\ failures = 0
  /\ req[1].action = "transaction"
  /\ TheRow.total_transactions = 1
  /\ ScoreDen * TheRow.intent_score > 100 * req[1].resp.intentScore

\* C17: when two concurrent events both try to unlock the same badge,
\* once both are answered there is exactly one unlock row for it, both
\* answers are successes and exactly one of them lists the badge.
C17_OneWinner ==
  \A b \in Range(Catalog) :
    (/\ \A r \in Reqs : req[r].pc = "done"
     /\ b.id \in req[1].tried \cap req[2].tried) =>
      /\ \A r \in Reqs : req[r].resp.status = 200
      /\ Cardinality({i \in 1..Len(badge_unlocks) : badge_unlocks[i].badge_id = b.id}) = 1
      /\ Cardinality({r \in Reqs : Includes(req[r].resp.newUnlocks, b.slug)}) = 1
      /\ \A r \in Reqs :
           Cardinality({i \in 1..Len(req[r].resp.newUnlocks) :
                          req[r].resp.newUnlocks[i] = b.slug}) <= 1

C17_Witness ==
  /\ \A r \in Reqs : Succeeded(r)
  /\ 2 \in req[1].tried \cap req[2].tried
  /\ Includes(req[2].resp.newUnlocks, "active")
  /\ ~ Includes(req[1].resp.newUnlocks, "active")

\* C18: two concurrent transaction events that both read the progress row
\* before either wrote it both succeed, and the persisted totalTransactions
\* is one more than the value read, not two: an update is lost.
C18_LostUpdate ==
  (/\ \A r \in Reqs : Succeeded(r) /\ req[r].action = "transaction"
   /\ req[1].resp.progress.totalTransactions = req[2].resp.progress.totalTransactions) =>
    /\ HasRow
    /\ TheRow.total_transactions = req[1].resp.progress.totalTransactions

C18_Witness ==
  /\ started = 2
  /\ \A r \in Reqs : Succeeded(r) /\ req[r].action = "transaction"
  /\ req[1].resp.progress.totalTransactions = 7
  /\ req[2].resp.progress.totalTransactions = 7
  /\ TheRow.total_transactions = 7

\* C19: once two concurrent events are both answered, the persisted
\* currentIdentityBadge is the unlocked identity progression badge of
\* highest progressionOrder.
C19_IdentityAfterRace ==
  (\A r \in Reqs : Succeeded(r)) =>
    TheRow.current_identity_badge = HighestUnlockedIdentity

\* a badge none of whose criteria keys the engine evaluates
UnevaluatedOnly(b) ==
  /\ b.is_active
  /\ ~ HasWindow(b)
  /\ DOMAIN b.criteria \cap {"min_transactions", "min_consecutive_days",
                            "min_protocols", "verified_on_chain"} = {}

\* C20: a badge with only unevaluated criteria keys and no event window is
\* unlocked by the first successfully processed event of the user whatever
\* the progress; a first transaction unlocks "voice" with zero shares.
C20_UnconditionalUnlock ==
  \A r \in Reqs :
    (Succeeded(r) /\ failures = 0) =>
      \A b \in Range(Catalog) :
        UnevaluatedOnly(b) =>
          /\ b.id \in UnlockedIds
          /\ req[r].created => Includes(req[r].resp.newUnlocks, b.slug)

C20_Witness ==
  /\ Succeeded(1)
  /\ failures = 0
  /\ req[1].created
  /\ req[1].action = "transaction"
  /\ TheRow.social_shares = 0
  /\ Includes(req[1].resp.newUnlocks, "voice")
  /\ Includes(req[1].resp.newUnlocks, "arc-mainnet")

CounterFields ==
  {"total_transactions", "protocols_interacted", "unique_protocols",
   "consecutive_days", "max_consecutive_days", "last_active_date",
   "social_shares", "total_engagement", "voice_state"}

Counters(p) == [f \in CounterFields |-> p[f]]

\* C21: no step of a daily_check or event_window request changes a counter
\* of the progress row (transactions, protocols, streak, last active date,
\* shares, engagement, voice state); a row it creates has them all at zero.
C21_NoOpKinds ==
  [][\A r \in Reqs :
       (/\ req'[r].action \in {"daily_check", "event_window"}
        /\ (InFlight(r) \/ InFlight(r)')) =>
         IF HasRow
         THEN HasRow' /\ Counters(TheRow') = Counters(TheRow)
         ELSE HasRow' => IsZeroed(TheRow')]_vars

C21_Witness ==
  /\ Succeeded(1)
  /\ req[1].action = "event_window"
  /\ now = LaunchDay + 6
  /\ TheRow.total_transactions = 6
  /\ TheRow.consecutive_days = 6
  /\ TheRow.last_active_date = Date(LaunchDay + 5)

\* C22: every request that passes validation and meets no datastore failure
\* completes with success whatever its action: the progress row exists, every
\* active badge whose criteria hold is unlocked, score and identity badge
\* are persisted, and the unlock rows the request inserted carry its action
\* (NULL when the body has none) as trigger_event.
C22_EveryActionEvaluated ==
  [][\A r \in Reqs :
       (/\ req[r].pc # "done" /\ req'[r].pc = "done"
        /\ req'[r].userId # "" /\ req'[r].walletAddress # ""
        /\ req'[r].failed = {}) =>
         /\ req'[r].resp.status = 200
         /\ HasRow'
         /\ \A b \in Range(ActiveBadges) :
              CriteriaMet(b, req'[r].progress, now) => b.id \in UnlockedIds'
         /\ TheRow'.intent_score = StoreScore(ScoreFormula(req'[r].progress))
         /\ TheRow'.current_identity_badge = req'[r].resp.currentIdentityBadge
         /\ \A i \in 1..Len(badge_unlocks') :
              Includes(req'[r].resp.newUnlocks, BadgeById(badge_unlocks'[i].badge_id).slug) =>
                /\ badge_unlocks'[i].trigger_event = req'[r].action
                /\ badge_unlocks'[i].trigger_tx_hash = req'[r].eventData.txHash]_vars

C22_Witness ==
  /\ Succeeded(1)
  /\ req[1].action = "claim_reward"
  /\ req[1].created
  /\ Includes(req[1].resp.newUnlocks, "voice")
  /\ \E i \in 1..Len(badge_unlocks) :
       /\ badge_unlocks[i].badge_id = 10
       /\ badge_unlocks[i].trigger_event = "claim_reward"
  /\ TheRow.total_transactions = 0

\* C23: there is at most one progress row per user; of two concurrent first
\* events that both find no row, one creates it and the other is answered
\* 500 without having written a counter or inserted an unlock.
C23_OneProgressRow ==
  /\ [](/\ Len(ProgressOf(user_badge_progress, UserId)) <= 1
        /\ Cardinality({r \in Reqs : req[r].created}) <= 1
        /\ (\A r \in Reqs : req[r].pc = "create") => ~ HasRow
        /\ \A r \in Reqs :
             "insert_progress" \in req[r].failed =>
               /\ req[r].pc = "done"
               /\ req[r].resp = Resp500
               /\ ~ req[r].created
               /\ req[r].progress = NoRow
               /\ req[r].tried = {}
               /\ HasRow)
  /\ [][\A r \in Reqs :
          (req[r].pc = "create" /\ req'[r].pc # "create") =>
            IF HasRow
            THEN /\ req'[r].pc = "done"
                 /\ "insert_progress" \in req'[r].failed
                 /\ UNCHANGED dbVars
            ELSE /\ req'[r].created
                 /\ Len(user_badge_progress') = 1
                 /\ IsZeroed(TheRow')]_vars

C23_Witness ==
  /\ Succeeded(1)
  /\ req[1].created
  /\ req[1].action = "social_share"
  /\ req[2].pc = "done"
  /\ req[2].action = "transaction"
  /\ "insert_progress" \in req[2].failed
  /\ Len(user_badge_progress) = 1
  /\ TheRow.total_transactions = 0
  /\ TheRow.social_shares = 1

\* C24: in every progress row, also under concurrent events, uniqueProtocols
\* is the length of the interacted-protocols list and the list names no
\* protocol twice.
C24_ProtocolsConsistent ==
  \A i \in 1..Len(user_badge_progress) :
    LET p == user_badge_progress[i] IN
    /\ p.unique_protocols = Len(p.protocols_interacted)
    /\ Cardinality(Range(p.protocols_interacted)) = Len(p.protocols_interacted)

C24_Witness ==
  /\ \A r \in Reqs : Succeeded(r) /\ req[r].action = "transaction"
  /\ req[1].eventData.protocol = "aave"
  /\ req[2].eventData.protocol = "arcflow"
  /\ req[1].resp.progress.uniqueProtocols = 4
  /\ req[2].resp.progress.uniqueProtocols = 3
  /\ req[1].resp.progress.totalTransactions = req[2].resp.progress.totalTransactions
  /\ TheRow.unique_protocols = 3
  /\ ~ Includes(TheRow.protocols_interacted, "aave")

\* C25: in every progress row, under any interleaving of events,
\* maxConsecutiveDays is at least consecutiveDays, and consecutiveDays is at
\* least 1 once lastActiveDate is set.
C25_StreakBounds ==
  \A i \in 1..Len(user_badge_progress) :
    LET p == user_badge_progress[i] IN
    /\ p.max_consecutive_days >= p.consecutive_days
    /\ p.last_active_date # NullDate => p.consecutive_days >= 1

C25_Witness ==
  /\ \A r \in Reqs : Succeeded(r) /\ req[r].action = "transaction"
  /\ req[1].resp.progress.totalTransactions = req[2].resp.progress.totalTransactions
  /\ dayAdv = 2
  /\ TheRow.last_active_date = Date(now)
  /\ TheRow.consecutive_days = 1
  /\ TheRow.max_consecutive_days = 6

\* C26: when the load of the catalog or of the unlock list fails after the
\* counter update of a transaction or social_share event, the request is
\* answered 500, the row keeps the updated counters and its previous
\* intentScore and currentIdentityBadge, and no unlock is inserted.
C26_NoRollback ==
  /\ [](\A r \in Reqs :
          (/\ req[r].pc = "done"
           /\ req[r].failed \cap {"select_badges", "select_unlocks"} # {}
           /\ req[r].action \in {"transaction", "social_share"}) =>
            /\ req[r].resp = Resp500
            /\ HasRow
            /\ \A f \in CounterFields \ {"voice_state"} : TheRow[f] = req[r].progress[f]
            /\ TheRow.voice_state =
                 IF req[r].action = "social_share" THEN getVoiceState(req[r].progress)
                 ELSE req[r].progress.voice_state
            /\ TheRow.intent_score = req[r].progress.intent_score
            /\ TheRow.current_identity_badge = req[r].progress.current_identity_badge
            /\ req[r].tried = {})
  /\ [][\A r \in Reqs :
          (req[r].pc \in {"badges", "unlocks"} /\ req'[r].pc = "done") =>
            UNCHANGED dbVars]_vars

C26_Witness ==
  /\ req[1].pc = "done"
  /\ req[1].resp = Resp500
  /\ req[1].action = "transaction"
  /\ "select_unlocks" \in req[1].failed
  /\ now = LaunchDay + 1
  /\ TheRow.total_transactions = 2
  /\ TheRow.consecutive_days = 2
  /\ TheRow.intent_score # StoreScore(ScoreFormula(TheRow))

ExactlyOneBound(b) ==
  (b.event_window_start = NullDate) # (b.event_window_end = NullDate)

NoWindow(b) == [b EXCEPT !.event_window_start = NullDate, !.event_window_end = NullDate]

\* C27: a badge with exactly one bound of the event window set is evaluated
\* as the same badge without a window: the bound that is set is not applied.
C27_HalfOpenWindowIgnored ==
  ExactlyOneBound(evBadge) =>
    (evResult <=> CriteriaMet(NoWindow(evBadge), evProgress, evNow))

C27_Witness ==
  /\ evBadge.slug = "voice"
  /\ evBadge.event_window_start = NullDate
  /\ evBadge.event_window_end = Date(LaunchDay + 1)
  /\ evCount = 3
  /\ evNow = LaunchDay + 2
  /\ evResult = TRUE

AllowedChange ==
  { <<"draft", "generated">>, <<"generated", "finalized">>,
    <<"generated", "draft">>, <<"finalized", "shared">> }

CounterOnly ==
  {b \in Range(Catalog) :
     /\ DOMAIN b.criteria # {}
     /\ DOMAIN b.criteria \subseteq {"min_transactions", "min_protocols"}
     /\ ~ HasWindow(b)}

\* the insert of b's unlock failed in the current request, and more events
\* are still to arrive than datastore failures can still happen
InsertFailed(b) ==
  /\ b.id \in req[1].tried
  /\ b.id \notin UnlockedIds
  /\ MaxEvents - started > failLimit - failures

\* C28: a badge whose criteria hold but whose unlock insert failed stays out
\* of the unlock set and every later event that finds its criteria satisfied
\* tries it again; a badge with only min_transactions and min_protocols
\* criteria is, events arriving one at a time and inserts eventually
\* succeeding, eventually unlocked and listed in the newUnlocks of the
\* request whose insert succeeded.
C28_RetriedUntilUnlocked ==
  /\ \A b \in CounterOnly :
       InsertFailed(b) ~> (b.id \in UnlockedIds /\ Includes(req[1].newUnlocks, b.slug))
  /\ [][\A b \in Range(Catalog) :
          /\ (b.id \in req'[1].tried /\ b.id \notin req[1].tried
              /\ ~ Includes(req'[1].newUnlocks, b.slug)) =>
               b.id \notin UnlockedIds'
          /\ (/\ req[1].pc = "final" /\ req'[1].pc = "done"
              /\ b.id \notin req[1].unlockedBadgeIds
              /\ CriteriaMet(b, req[1].progress, now)) =>
               b.id \in req[1].tried]_vars

C28_Witness ==
  /\ started = 2
  /\ failures = 1
  /\ Succeeded(1)
  /\ ~ req[1].created
  /\ req[1].action = "daily_check"
  /\ TheRow.total_transactions = 1
  /\ req[1].resp.newUnlocks = <<"newcomer">>
  /\ 4 \in UnlockedIds

====
